---------------------------- MODULE Spec2Model ----------------------------
(***************************************************************************)
(* AI Background Preserver: the single-image edit session of src/App.tsx   *)
(* (component App), the Edit Service Client and the image codec of         *)
(* src/services/geminiService.ts.                                          *)
(*                                                                         *)
(* A JavaScript string is a sequence of fragments: text that the code      *)
(* parses, splits or trims is cut into one-character fragments, so that    *)
(* these conversions are computed; a fixed message is one fragment.  A     *)
(* nullable value is None (<<>>) or Some(v) (<<v>>).                       *)
(*                                                                         *)
(* Of App's state, inputMode and isDragging are left out: they choose      *)
(* which of the two input panels is rendered and how the drop zone is      *)
(* drawn, no handler reads them, and the tab buttons are never disabled,   *)
(* so in every state the controls of either panel are one click away and   *)
(* are offered here as the panel renders them.                             *)
(***************************************************************************)
EXTENDS Integers, Sequences, FiniteSets, Bags, TLC

\* ------------------------------------------------------------------ bounds

\* Asynchronous operations (loads and edits) outstanding at the same time.
MaxPending == 2
\* Candidates in one response of the generative service.
MaxCandidates == 2
\* Parts in one response of the generative service, over all its candidates.
MaxParts == 2
\* Characters in a base64 payload given to the codec.
MaxPayload == 2
\* Records that the collection of the multi-image variant admits.
MaxImages == 2

\* ----------------------------------------------------------------- strings

None == <<>>
Some(v) == <<v>>
IsNull(o) == o = None
Val(o) == o[1]

LineTerminators == {"\n", "\r"}
WhiteSpace == {" ", "\t", "\n", "\r"}

\* String.prototype.startsWith
StartsWith(s, p) == Len(s) >= Len(p) /\ SubSeq(s, 1, Len(p)) = p

\* The start positions of the occurrences of p in s.
Occurrences(s, p) ==
  {i \in 1..(Len(s) - Len(p) + 1) : SubSeq(s, i, i + Len(p) - 1) = p}

\* String.prototype.includes
Includes(s, p) == Occurrences(s, p) # {}

SetMax(S) == CHOOSE x \in S : \A y \in S : y <= x
SetMin(S) == CHOOSE x \in S : \A y \in S : x <= y

\* String.prototype.trim
Trim(s) ==
  LET keep == {i \in 1..Len(s) : s[i] \notin WhiteSpace}
  IN IF keep = {} THEN <<>> ELSE SubSeq(s, SetMin(keep), SetMax(keep))

\* s.split(',')[1]: the text between the first comma and the next one (or the
\* end); undefined when s has no comma.
Undefined == <<"undefined">>
SplitComma1(s) ==
  LET commas == {i \in 1..Len(s) : s[i] = ","}
  IN IF commas = {} THEN Undefined
     ELSE LET first == SetMin(commas)
              rest == {i \in commas : i > first}
              stop == IF rest = {} THEN Len(s) + 1 ELSE SetMin(rest)
          IN SubSeq(s, first + 1, stop - 1)

DataScheme == <<"d", "a", "t", "a", ":">>
Base64Marker == <<";", "b", "a", "s", "e", "6", "4", ",">>
ImageSlash == <<"i", "m", "a", "g", "e", "/">>
ImagePng == ImageSlash \o <<"p", "n", "g">>
ImageJpeg == ImageSlash \o <<"j", "p", "e", "g">>
TextHtml == <<"t", "e", "x", "t", "/", "h", "t", "m", "l">>

\* ------------------------------------------------------------- image codec

\* FileReader.readAsDataURL of a blob of the given type whose bytes have the
\* given base64 text.
ReadAsDataURL(type, data) == DataScheme \o type \o Base64Marker \o data

\* The template `data:image/png;base64,${resultBase64}`.
PngDataUrl(resultBase64) == DataScheme \o ImagePng \o Base64Marker \o resultBase64

\* dataUrl.match(/^data:(.+);base64,(.*)$/): "." matches no line terminator,
\* (.+) is greedy, so the marker taken is the last one that leaves at least
\* one character for the MIME type.
DataUrlMatch(dataUrl) ==
  LET marks == {i \in Occurrences(dataUrl, Base64Marker) : i >= Len(DataScheme) + 2}
      clean == \A i \in (Len(DataScheme) + 1)..Len(dataUrl) :
                 dataUrl[i] \notin LineTerminators
  IN IF StartsWith(dataUrl, DataScheme) /\ marks # {} /\ clean
     THEN Some(SetMax(marks))
     ELSE None

InvalidDataUrl == <<"Invalid data URL format. Expected \"data:<mime-type>;base64,<data>\".">>

\* A slip in lines 132-133: the two captures are taken for each other.
dataUrlToInfo_SwappedGroups(dataUrl) ==
  LET match == DataUrlMatch(dataUrl)
  IN IF IsNull(match)
     THEN [ok |-> FALSE, error |-> InvalidDataUrl]
     ELSE [ok |-> TRUE,
           base64 |-> SubSeq(dataUrl, Len(DataScheme) + 1, Val(match) - 1),
           mimeType |-> SubSeq(dataUrl, Val(match) + Len(Base64Marker), Len(dataUrl))]

\* dataUrlToInfo: what it returns (ok), or the message of the error it throws.
dataUrlToInfo(dataUrl) ==
  LET match == DataUrlMatch(dataUrl)
  IN IF IsNull(match)
     THEN [ok |-> FALSE, error |-> InvalidDataUrl]
     ELSE [ok |-> TRUE,
           base64 |-> SubSeq(dataUrl, Val(match) + Len(Base64Marker), Len(dataUrl)),
           mimeType |-> SubSeq(dataUrl, Len(DataScheme) + 1, Val(match) - 1)]

\* ----------------------------------------------------- Edit Service Client

\* What ai.models.generateContent does: it throws (threw, with the error's
\* message) or returns a response: candidates, each with parts and an
\* optional finishReason; a part has inlineData (with its data) or not.
SafetyPrefix ==
  <<"I", "m", "a", "g", "e", " ", "g", "e", "n", "e", "r", "a", "t", "i",
    "o", "n", " ", "f", "a", "i", "l", "e", "d", " ", "d", "u", "e", " ",
    "t", "o", " ", "s", "a", "f", "e", "t", "y", " ", "r", "e", "a", "s",
    "o", "n", "s", ":", " ">>
NoImageData ==
  <<"N", "o", " ", "i", "m", "a", "g", "e", " ", "d", "a", "t", "a", " ",
    "f", "o", "u", "n", "d", " ", "i", "n", " ", "t", "h", "e", " ", "G",
    "e", "m", "i", "n", "i", " ", "A", "P", "I", " ", "r", "e", "s", "p",
    "o", "n", "s", "e", ".">>
ApiKeyWord == <<"A", "P", "I", "_", "K", "E", "Y">>
Stop == <<"S", "T", "O", "P">>

FailedApiKey == <<"Failed to process image. Please ensure your API key is valid.">>
FailedModel == <<"Failed to process image with the AI model.">>

\* response.candidates?.[0]?.content?.parts?.find(part => part.inlineData)
FindImagePart(response) ==
  IF Len(response.candidates) = 0 THEN None
  ELSE LET parts == response.candidates[1].parts
           hits == {i \in 1..Len(parts) : ~IsNull(parts[i].inlineData)}
       IN IF hits = {} THEN None ELSE Some(parts[SetMin(hits)])

\* response.candidates?.[0]?.finishReason
FirstFinishReason(response) ==
  IF Len(response.candidates) = 0 THEN None
  ELSE response.candidates[1].finishReason

\* The try block: what it returns, or the message of the error it throws.
TryGenerate(outcome) ==
  IF outcome.threw THEN [threw |-> TRUE, message |-> outcome.message]
  ELSE LET imagePart == FindImagePart(outcome.response)
           safetyReason == FirstFinishReason(outcome.response)
       IN IF ~IsNull(imagePart)
          THEN [threw |-> FALSE, data |-> Val(Val(imagePart).inlineData)]
          ELSE IF ~IsNull(safetyReason) /\ Val(safetyReason) # <<>>
                  /\ Val(safetyReason) # Stop
               THEN [threw |-> TRUE, message |-> SafetyPrefix \o Val(safetyReason)]
               ELSE [threw |-> TRUE, message |-> NoImageData]

\* The catch block: every error of the try block, its own two included, is
\* replaced by one of two fixed errors.
CatchGenerate(message) ==
  IF Includes(message, ApiKeyWord) THEN FailedApiKey ELSE FailedModel

processImageWithGemini(outcome) ==
  LET r == TryGenerate(outcome)
  IN IF r.threw
     THEN [ok |-> FALSE, error |-> CatchGenerate(r.message)]
     ELSE [ok |-> TRUE, data |-> r.data]

\* -------------------------------------------------------- image acquisition

InvalidUpload == <<"Invalid file type. Please upload an image.">>
FailedReadFile == <<"Failed to read the image file data.">>
FailedReadDownload == <<"Failed to read the downloaded image data.">>
ReaderError == <<"An error occurred while reading the image file: ", "[object ProgressEvent]">>
NetworkErrorMessage == <<"A network error occurred while fetching the image. This might be due to the proxy service or your connection. Please try again.">>
NotAnImage == <<"The URL did not point to a valid image. Please check the URL and try again.">>
StatusError(status, statusText) ==
  <<"Failed to fetch image. The server responded with status: ", status, " ",
    statusText,
    ". Please ensure the URL is correct and the image is publicly accessible.">>

\* What a FileReader does with a blob: the error event (result null), or
\* loadend with the data URL of the blob.
ReaderResult(type, data, read) ==
  IF read = "load" THEN Some(ReadAsDataURL(type, data)) ELSE None

\* The promise of lines 102-114 and of lines 63-79 after the type check.
ReadBlob(type, data, read, mimeType, emptyMessage) ==
  LET dataUrl == ReaderResult(type, data, read)
  IN IF read = "error" THEN [ok |-> FALSE, error |-> ReaderError]
     ELSE IF IsNull(dataUrl) \/ Val(dataUrl) = <<>>
     THEN [ok |-> FALSE, error |-> emptyMessage]
     ELSE [ok |-> TRUE, base64 |-> SplitComma1(Val(dataUrl)),
           mimeType |-> mimeType, dataUrl |-> Val(dataUrl)]

fileToInfo(file, read) ==
  IF ~StartsWith(file.type, ImageSlash)
  THEN [ok |-> FALSE, error |-> InvalidUpload]
  ELSE ReadBlob(file.type, file.data, read, file.type, FailedReadFile)

\* A slip in lines 95-98: the Content-Type of the response is not checked.
urlToInfo_AnyContentType(fetched, read) ==
  IF fetched.threw THEN [ok |-> FALSE, error |-> NetworkErrorMessage]
  ELSE IF ~fetched.ok
  THEN [ok |-> FALSE, error |-> StatusError(fetched.status, fetched.statusText)]
  ELSE ReadBlob(Val(fetched.contentType), fetched.data, read,
                Val(fetched.contentType), FailedReadDownload)

\* fetch threw a TypeError (threw), or gave a response with ok, status,
\* statusText, an optional Content-Type header and a body.
urlToInfo(fetched, read) ==
  IF fetched.threw THEN [ok |-> FALSE, error |-> NetworkErrorMessage]
  ELSE IF ~fetched.ok
  THEN [ok |-> FALSE, error |-> StatusError(fetched.status, fetched.statusText)]
  ELSE IF IsNull(fetched.contentType) \/ ~StartsWith(Val(fetched.contentType), ImageSlash)
  THEN [ok |-> FALSE, error |-> NotAnImage]
  ELSE ReadBlob(Val(fetched.contentType), fetched.data, read,
                Val(fetched.contentType), FailedReadDownload)

\* ------------------------------------------------------------------ inputs

TextPlain == <<"t", "e", "x", "t", "/", "p", "l", "a", "i", "n">>

\* The files a user picks or drops.
Files ==
  {[type |-> ImagePng, data |-> <<"A">>],
   [type |-> TextPlain, data |-> <<"T">>]}

\* What a FileReader does.
Reads == {"load", "error"}

\* What the user types into the URL field and into the refinement field.
UrlTexts == {<<>>, <<" ">>, <<"u">>}
PromptTexts == {<<>>, <<" ">>, <<"g">>}

\* What fetch does with the proxied URL.
Fetches ==
  {[threw |-> TRUE],
   [threw |-> FALSE, ok |-> FALSE, status |-> "404", statusText |-> "Not Found",
    contentType |-> Some(TextHtml), data |-> <<>>],
   [threw |-> FALSE, ok |-> TRUE, status |-> "200", statusText |-> "OK",
    contentType |-> Some(TextHtml), data |-> <<"H">>],
   [threw |-> FALSE, ok |-> TRUE, status |-> "200", statusText |-> "OK",
    contentType |-> Some(ImageJpeg), data |-> <<"B">>]}

\* The image payloads the generative service returns.
ImageData == {<<"C">>, <<"D">>}
FinishReasons == {None, Some(Stop), Some(<<"S", "A", "F", "E", "T", "Y">>)}
TransportMessages ==
  {<<"A", "P", "I", "_", "K", "E", "Y", "_", "I", "N", "V", "A", "L", "I", "D">>,
   <<"f", "e", "t", "c", "h", " ", "f", "a", "i", "l", "e", "d">>}

SeqsUpTo(S, n) == UNION {[1..k -> S] : k \in 0..n}
PartSet == {[inlineData |-> None]} \cup {[inlineData |-> Some(d)] : d \in ImageData}
Candidates(maxParts) ==
  [parts : SeqsUpTo(PartSet, maxParts), finishReason : FinishReasons]

\* The candidate lists of at most n candidates with at most maxParts parts
\* in all.
RECURSIVE CandidateSeqs(_, _)
CandidateSeqs(n, maxParts) ==
  {<<>>} \cup
    (IF n = 0 THEN {}
     ELSE UNION {{<<c>> \o rest : rest \in CandidateSeqs(n - 1, maxParts - Len(c.parts))} :
                  c \in Candidates(maxParts)})

Throws == {[threw |-> TRUE, message |-> m] : m \in TransportMessages}

\* Everything generateContent can do.
Outcomes ==
  Throws \cup {[threw |-> FALSE, response |-> [candidates |-> c]] :
                 c \in CandidateSeqs(MaxCandidates, MaxParts)}

\* The outcomes the session is run against, one for each result that
\* processImageWithGemini has: the calls that throw, a response with an image
\* part, and a response without one that stopped normally or was filtered.
SessionOutcomes ==
  Throws
    \cup {[threw |-> FALSE, response |-> [candidates |->
            <<[parts |-> <<[inlineData |-> Some(d)]>>, finishReason |-> Some(Stop)]>>]] :
          d \in ImageData}
    \cup {[threw |-> FALSE, response |-> [candidates |->
            <<[parts |-> <<>>, finishReason |-> f]>>]] :
          f \in FinishReasons \ {None}}

\* ------------------------------------------------------- session (App.tsx)

VARIABLES
  imageUrlInput,            \* the URL field
  originalImageInfo,        \* None or Some([base64, mimeType])
  displayOriginalImageUrl,  \* None or Some(data URL)
  latestProcessedImageUrl,  \* None or Some(data URL)
  prompt,                   \* the refinement field
  isLoading,
  loadingMessage,
  error,                    \* None or Some(message)
  isFirstRequest,
  pending,                  \* the bag of promises awaited: loads and edit requests
  call,                     \* client alone: what generateContent does, or None
  result,                   \* client alone: what processImageWithGemini gave, or None
  encoded,                  \* codec alone: the data URL to decode and what made it, or None
  decoded,                  \* codec alone: what dataUrlToInfo gave, or None
  images,                   \* collection: the records, by id
  nextId,                   \* collection: the id of the next record
  isProcessingAll,          \* collection: a batch clean is in progress
  batch,                    \* collection: how each operation of the last batch stands, by id
  requests                  \* collection: the edit requests awaited

session ==
  <<imageUrlInput, originalImageInfo, displayOriginalImageUrl,
    latestProcessedImageUrl, prompt, isLoading, loadingMessage, error,
    isFirstRequest, pending>>

client == <<call, result>>

codec == <<encoded, decoded>>

collection == <<images, nextId, isProcessingAll, batch, requests>>

vars == <<session, client, codec, collection>>

CleanInstruction ==
  <<"Identify and meticulously remove all people and text. Intelligently and realistically reconstruct the background. The output image should look as if the people and text were never there. Provide a clean, preserved background suitable for graphic design and digital creations.">>

EnterUrl == <<"Please enter an image URL.">>
InvalidDrop == <<"Invalid file type. Please drop an image file.">>
LoadFirst == <<"Please load an image first.">>
MissingProcessed == <<"Cannot apply refinement, the processed image is missing.">>
ProvideInstruction == <<"Please provide a refinement instruction.">>

\* History kept in an awaited load: the record as the load finds it when it
\* begins.
Snapshot ==
  [originalImageInfo |-> originalImageInfo,
   displayOriginalImageUrl |-> displayOriginalImageUrl,
   latestProcessedImageUrl |-> latestProcessedImageUrl,
   isFirstRequest |-> isFirstRequest]

\* The awaited promises of one kind, and how many they are.
Awaited(kind) == {op \in BagToSet(pending) : op.kind = kind}
RECURSIVE Copies(_)
Copies(ops) ==
  IF ops = {} THEN 0
  ELSE LET op == CHOOSE o \in ops : TRUE
       IN CopiesIn(op, pending) + Copies(ops \ {op})
Outstanding(kind) == Copies(Awaited(kind))

Init ==
  /\ imageUrlInput = <<>>
  /\ originalImageInfo = None
  /\ displayOriginalImageUrl = None
  /\ latestProcessedImageUrl = None
  /\ prompt = <<>>
  /\ isLoading = FALSE
  /\ loadingMessage = ""
  /\ error = None
  /\ isFirstRequest = TRUE
  /\ pending = EmptyBag
  /\ call = None
  /\ result = None
  /\ encoded = None
  /\ decoded = None
  /\ images = <<>>
  /\ nextId = 1
  /\ isProcessingAll = FALSE
  /\ batch = <<>>
  /\ requests = {}

\* The URL field's onChange; the field is disabled while isLoading.
SetImageUrlInput(text) ==
  /\ ~isLoading
  /\ imageUrlInput' = text
  /\ UNCHANGED <<originalImageInfo, displayOriginalImageUrl,
                 latestProcessedImageUrl, prompt, isLoading, loadingMessage,
                 error, isFirstRequest, pending, client, codec, collection>>

\* The refinement field's onChange; the field is disabled before the first
\* edit, while isLoading and without an original.
SetPrompt(text) ==
  /\ ~(isFirstRequest \/ isLoading \/ IsNull(originalImageInfo))
  /\ prompt' = text
  /\ UNCHANGED <<imageUrlInput, originalImageInfo,
                 displayOriginalImageUrl, latestProcessedImageUrl, isLoading,
                 loadingMessage, error, isFirstRequest, pending, client, codec, collection>>

\* A slip in line 30: the processed result is not cleared.
resetStateForNewImage_KeepsResult ==
  [isLoading |-> TRUE,
   loadingMessage |-> "Loading image...",
   error |-> None,
   displayOriginalImageUrl |-> None,
   latestProcessedImageUrl |-> latestProcessedImageUrl,
   originalImageInfo |-> None,
   prompt |-> <<>>]

\* What the seven setters of resetStateForNewImage set.
resetStateForNewImage ==
  [isLoading |-> TRUE,
   loadingMessage |-> "Loading image...",
   error |-> None,
   displayOriginalImageUrl |-> None,
   latestProcessedImageUrl |-> None,
   originalImageInfo |-> None,
   prompt |-> <<>>]

\* A load begins: resetStateForNewImage, then the promise op is awaited.
LoadBegins(op) ==
  LET reset == resetStateForNewImage
  IN /\ BagCardinality(pending) < MaxPending
     /\ isLoading' = reset.isLoading
     /\ loadingMessage' = reset.loadingMessage
     /\ error' = reset.error
     /\ displayOriginalImageUrl' = reset.displayOriginalImageUrl
     /\ latestProcessedImageUrl' = reset.latestProcessedImageUrl
     /\ originalImageInfo' = reset.originalImageInfo
     /\ prompt' = reset.prompt
     /\ pending' = pending (+) SetToBag({op})
     /\ UNCHANGED <<imageUrlInput, isFirstRequest, client, codec, collection>>

\* processFile of a file that is not an image: fileToInfo rejects before the
\* handler yields, so the reset, the catch and the finally take effect
\* together, before any other event.
LoadRefused(file) ==
  LET reset == resetStateForNewImage
  IN /\ displayOriginalImageUrl' = reset.displayOriginalImageUrl
     /\ latestProcessedImageUrl' = reset.latestProcessedImageUrl
     /\ originalImageInfo' = reset.originalImageInfo
     /\ prompt' = reset.prompt
     /\ error' = Some(fileToInfo(file, "load").error)
     /\ isLoading' = FALSE
     /\ loadingMessage' = ""
     /\ UNCHANGED <<imageUrlInput, isFirstRequest, pending, client, codec, collection>>

processFile(file) ==
  IF StartsWith(file.type, ImageSlash)
  THEN LoadBegins([kind |-> "file", file |-> file, before |-> Snapshot])
  ELSE LoadRefused(file)

\* The file input's onChange; the input is disabled while isLoading.
handleFileChange(file) ==
  /\ ~isLoading
  /\ processFile(file)

\* The drop zone's onDrop, which no state of the record disables.
handleDrop(file) ==
  IF StartsWith(file.type, ImageSlash)
  THEN processFile(file)
  ELSE /\ error' = Some(InvalidDrop)
       /\ UNCHANGED <<imageUrlInput, originalImageInfo,
                      displayOriginalImageUrl, latestProcessedImageUrl,
                      prompt, isLoading, loadingMessage, isFirstRequest,
                      pending, client, codec, collection>>

\* The Load Image button's onClick (and Enter in the URL field), both
\* disabled while isLoading: a blank URL is refused, anything else resets the
\* record and calls urlToInfo.
handleLoadImage ==
  /\ ~isLoading
  /\ IF Trim(imageUrlInput) = <<>>
     THEN /\ error' = Some(EnterUrl)
          /\ UNCHANGED <<imageUrlInput, originalImageInfo,
                         displayOriginalImageUrl, latestProcessedImageUrl,
                         prompt, isLoading, loadingMessage, isFirstRequest,
                         pending, client, codec, collection>>
     ELSE LoadBegins([kind |-> "url", url |-> imageUrlInput, before |-> Snapshot])

\* A slip in lines 43-46 and 73-76: the catch only logs the error.
LoadSettled_SwallowsError(op, info) ==
  /\ pending' = pending (-) SetToBag({op})
  /\ IF info.ok
     THEN /\ originalImageInfo' = Some([base64 |-> info.base64, mimeType |-> info.mimeType])
          /\ displayOriginalImageUrl' = Some(info.dataUrl)
          /\ isFirstRequest' = TRUE
     ELSE UNCHANGED <<originalImageInfo, displayOriginalImageUrl, isFirstRequest>>
  /\ error' = error
  /\ isLoading' = FALSE
  /\ loadingMessage' = ""
  /\ UNCHANGED <<imageUrlInput, latestProcessedImageUrl, prompt, client, codec, collection>>

\* A slip in lines 41 and 72: the load does not set isFirstRequest again.
LoadSettled_KeepsFirstRequest(op, info) ==
  /\ pending' = pending (-) SetToBag({op})
  /\ IF info.ok
     THEN /\ originalImageInfo' = Some([base64 |-> info.base64, mimeType |-> info.mimeType])
          /\ displayOriginalImageUrl' = Some(info.dataUrl)
          /\ isFirstRequest' = isFirstRequest
          /\ error' = error
     ELSE /\ error' = Some(info.error)
          /\ UNCHANGED <<originalImageInfo, displayOriginalImageUrl, isFirstRequest>>
  /\ isLoading' = FALSE
  /\ loadingMessage' = ""
  /\ UNCHANGED <<imageUrlInput, latestProcessedImageUrl, prompt, client, codec, collection>>

\* What follows the await of processFile and of handleLoadImage, the load op
\* having settled with info: the try's three assignments or the catch, then
\* the finally.
LoadSettled(op, info) ==
  /\ pending' = pending (-) SetToBag({op})
  /\ IF info.ok
     THEN /\ originalImageInfo' = Some([base64 |-> info.base64, mimeType |-> info.mimeType])
          /\ displayOriginalImageUrl' = Some(info.dataUrl)
          /\ isFirstRequest' = TRUE
          /\ error' = error
     ELSE /\ error' = Some(info.error)
          /\ UNCHANGED <<originalImageInfo, displayOriginalImageUrl, isFirstRequest>>
  /\ isLoading' = FALSE
  /\ loadingMessage' = ""
  /\ UNCHANGED <<imageUrlInput, latestProcessedImageUrl, prompt, client, codec, collection>>

\* fileToInfo settles.
FileSettled ==
  \E op \in Awaited("file"), read \in Reads :
    LoadSettled(op, fileToInfo(op.file, read))

\* urlToInfo settles.
UrlSettled ==
  \E op \in Awaited("url"), fetched \in Fetches, read \in Reads :
    LoadSettled(op, urlToInfo(fetched, read))

\* A slip in lines 121-124: the first request takes the text of the field.
FirstRequest_TypedPrompt ==
  [step |-> "send",
   base64Image |-> Val(originalImageInfo).base64,
   mimeType |-> Val(originalImageInfo).mimeType,
   currentPrompt |-> prompt]

\* Lines 121-124 of handleProcessImage: the first request.
FirstRequest ==
  [step |-> "send",
   base64Image |-> Val(originalImageInfo).base64,
   mimeType |-> Val(originalImageInfo).mimeType,
   currentPrompt |-> CleanInstruction]

\* A slip in lines 134-136: the refinement is made from the original.
Refinement_FromOriginal ==
  IF IsNull(latestProcessedImageUrl) \/ Val(latestProcessedImageUrl) = <<>>
  THEN [step |-> "throw", error |-> MissingProcessed]
  ELSE IF Trim(prompt) = <<>> THEN [step |-> "return"]
  ELSE [step |-> "send",
        base64Image |-> Val(originalImageInfo).base64,
        mimeType |-> Val(originalImageInfo).mimeType,
        currentPrompt |-> prompt]

\* A slip in line 129: the instruction is not trimmed before the test.
Refinement_Untrimmed ==
  IF IsNull(latestProcessedImageUrl) \/ Val(latestProcessedImageUrl) = <<>>
  THEN [step |-> "throw", error |-> MissingProcessed]
  ELSE IF prompt = <<>> THEN [step |-> "return"]
  ELSE LET info == dataUrlToInfo(Val(latestProcessedImageUrl))
       IN IF ~info.ok THEN [step |-> "throw", error |-> info.error]
          ELSE [step |-> "send",
                base64Image |-> info.base64,
                mimeType |-> info.mimeType,
                currentPrompt |-> prompt]

\* Lines 125-138 of handleProcessImage: a refinement, which is sent, or
\* throws, or returns early.
Refinement ==
  IF IsNull(latestProcessedImageUrl) \/ Val(latestProcessedImageUrl) = <<>>
  THEN [step |-> "throw", error |-> MissingProcessed]
  ELSE IF Trim(prompt) = <<>> THEN [step |-> "return"]
  ELSE LET info == dataUrlToInfo(Val(latestProcessedImageUrl))
       IN IF ~info.ok THEN [step |-> "throw", error |-> info.error]
          ELSE [step |-> "send",
                base64Image |-> info.base64,
                mimeType |-> info.mimeType,
                currentPrompt |-> prompt]

\* Lines 107-138 of handleProcessImage, on the values its closure holds:
\* the request to send, or the way the handler ends without sending one.
PrepareEdit ==
  IF IsNull(originalImageInfo) THEN [step |-> "noImage"]
  ELSE IF isFirstRequest THEN FirstRequest
  ELSE Refinement

\* The Clean Background / Apply Refinement button's onClick; the button is
\* disabled while isLoading or without an original. An edit request awaited
\* keeps, as history, isFirstRequest and latestProcessedImageUrl as they were
\* when it was sent.
handleProcessImage ==
  /\ ~isLoading
  /\ ~IsNull(originalImageInfo)
  /\ LET p == PrepareEdit
     IN CASE p.step = "send" ->
               /\ BagCardinality(pending) < MaxPending
               /\ isLoading' = TRUE
               /\ loadingMessage' = IF isFirstRequest THEN "Cleaning background..."
                                    ELSE "Applying refinement..."
               /\ error' = None
               /\ pending' = pending (+) SetToBag({
                     [kind |-> "edit",
                      base64Image |-> p.base64Image,
                      mimeType |-> p.mimeType,
                      prompt |-> p.currentPrompt,
                      first |-> isFirstRequest,
                      latestBefore |-> latestProcessedImageUrl]})
          [] p.step = "throw" ->
               /\ isLoading' = FALSE
               /\ loadingMessage' = ""
               /\ error' = Some(p.error)
               /\ pending' = pending
          [] p.step = "return" ->
               /\ isLoading' = FALSE
               /\ loadingMessage' = ""
               /\ error' = Some(ProvideInstruction)
               /\ pending' = pending
          [] OTHER ->
               /\ error' = Some(LoadFirst)
               /\ UNCHANGED <<isLoading, loadingMessage, pending>>
  /\ UNCHANGED <<imageUrlInput, originalImageInfo, displayOriginalImageUrl,
                 latestProcessedImageUrl, prompt, isFirstRequest, client, codec, collection>>

\* A slip in lines 142-143: the result also replaces the original.
EditSettled_ReplacesOriginal(op, r) ==
  /\ pending' = pending (-) SetToBag({op})
  /\ IF r.ok
     THEN /\ latestProcessedImageUrl' = Some(PngDataUrl(r.data))
          /\ originalImageInfo' = Some([base64 |-> r.data, mimeType |-> ImagePng])
          /\ isFirstRequest' = FALSE
          /\ error' = error
     ELSE /\ error' = Some(r.error)
          /\ UNCHANGED <<latestProcessedImageUrl, isFirstRequest, originalImageInfo>>
  /\ isLoading' = FALSE
  /\ loadingMessage' = ""
  /\ UNCHANGED <<imageUrlInput, displayOriginalImageUrl, prompt, client, codec, collection>>

\* A slip in lines 149-151: the finally does not clear the flag.
EditSettled_FlagStays(op, r) ==
  /\ pending' = pending (-) SetToBag({op})
  /\ IF r.ok
     THEN /\ latestProcessedImageUrl' = Some(PngDataUrl(r.data))
          /\ isFirstRequest' = FALSE
          /\ error' = error
     ELSE /\ error' = Some(r.error)
          /\ UNCHANGED <<latestProcessedImageUrl, isFirstRequest>>
  /\ UNCHANGED <<isLoading, loadingMessage>>
  /\ UNCHANGED <<imageUrlInput, originalImageInfo, displayOriginalImageUrl,
                 prompt, client, codec, collection>>

\* What follows the await of line 140, the request op having settled with r:
\* the two assignments of the try or the catch, then the finally.
EditSettled(op, r) ==
  /\ pending' = pending (-) SetToBag({op})
  /\ IF r.ok
     THEN /\ latestProcessedImageUrl' = Some(PngDataUrl(r.data))
          /\ isFirstRequest' = FALSE
          /\ error' = error
     ELSE /\ error' = Some(r.error)
          /\ UNCHANGED <<latestProcessedImageUrl, isFirstRequest>>
  /\ isLoading' = FALSE
  /\ loadingMessage' = ""
  /\ UNCHANGED <<imageUrlInput, originalImageInfo, displayOriginalImageUrl,
                 prompt, client, codec, collection>>

\* processImageWithGemini settles.
ServiceSettled ==
  \E op \in Awaited("edit"), outcome \in SessionOutcomes :
    EditSettled(op, processImageWithGemini(outcome))

Next ==
  \/ \E text \in UrlTexts : SetImageUrlInput(text)
  \/ \E text \in PromptTexts : SetPrompt(text)
  \/ \E file \in Files : handleFileChange(file)
  \/ \E file \in Files : handleDrop(file)
  \/ handleLoadImage
  \/ FileSettled
  \/ UrlSettled
  \/ handleProcessImage
  \/ ServiceSettled

Spec == Init /\ [][Next]_vars

\* The session whose collaborators answer: the FileReader fires onload or
\* onerror, fetch resolves or rejects, and the edit service resolves or
\* rejects, so an await that has something to wait for is resumed. Nothing
\* obliges the user to act.
FairSpec ==
  /\ Spec
  /\ WF_vars(FileSettled)
  /\ WF_vars(UrlSettled)
  /\ WF_vars(ServiceSettled)

\* ------------------------------------------- the Edit Service Client alone

\* generateContent does one of the things it can do.
ClientReceives ==
  /\ call = None
  /\ \E outcome \in Outcomes : call' = Some(outcome)
  /\ result' = None
  /\ UNCHANGED <<session, codec, collection>>

\* processImageWithGemini gives its caller the result, and the client is
\* ready for the next call.
ClientSettles ==
  /\ call # None
  /\ result = None
  /\ result' = Some(processImageWithGemini(Val(call)))
  /\ UNCHANGED <<call, session, codec, collection>>

ClientRests ==
  /\ result # None
  /\ call' = None
  /\ result' = None
  /\ UNCHANGED <<session, codec, collection>>

ClientNext == ClientReceives \/ ClientSettles \/ ClientRests

ClientSpec == Init /\ [][ClientNext]_vars

\* --------------------------------------------------- the image codec alone

\* Characters of a base64 payload, and the payloads given to the codec.
Base64Chars == {"A", "+", "/", "="}
Payloads == SeqsUpTo(Base64Chars, MaxPayload)

ImageSvg == ImageSlash \o <<"s", "v", "g", "+", "x", "m", "l">>
MimeTypes == {ImagePng, ImageJpeg, ImageSvg}

\* Strings that are given to dataUrlToInfo as data URLs and lack the scheme,
\* the separator or the payload.
BrokenDataUrls ==
  {m \o Base64Marker \o b : m \in MimeTypes, b \in Payloads \ {<<>>}}
    \cup {DataScheme \o m \o b : m \in MimeTypes, b \in Payloads \ {<<>>}}
    \cup {DataScheme \o m \o Base64Marker : m \in MimeTypes}

\* A data URL is made of a payload and a MIME type, as FileReader and the
\* template of handleProcessImage make it.
CodecEncodes ==
  /\ encoded = None
  /\ \E m \in MimeTypes, b \in Payloads :
       encoded' = Some([dataUrl |-> ReadAsDataURL(m, b),
                        source |-> Some([base64 |-> b, mimeType |-> m])])
  /\ decoded' = None
  /\ UNCHANGED <<session, client, collection>>

\* A string that no encoding made is given as a data URL.
CodecReceives ==
  /\ encoded = None
  /\ \E u \in BrokenDataUrls : encoded' = Some([dataUrl |-> u, source |-> None])
  /\ decoded' = None
  /\ UNCHANGED <<session, client, collection>>

\* dataUrlToInfo returns or throws.
CodecDecodes ==
  /\ encoded # None
  /\ decoded = None
  /\ decoded' = Some(dataUrlToInfo(Val(encoded).dataUrl))
  /\ UNCHANGED <<encoded, session, client, collection>>

CodecRests ==
  /\ decoded # None
  /\ encoded' = None
  /\ decoded' = None
  /\ UNCHANGED <<session, client, collection>>

CodecNext == CodecEncodes \/ CodecReceives \/ CodecDecodes \/ CodecRests

CodecSpec == Init /\ [][CodecNext]_vars

\* ------------------------------------ the collection (multi-image variant)

\* ImageProcessor (src/App.tsx, lines 262-325) renders one record of the
\* collection and binds its controls to onPromptChange, onRefine and
\* onRemove.  The component that owns the collection and implements these
\* handlers, the admission of images and the batch clean is not among the
\* sources; its handlers are written here from the specification (4.4,
\* transitions 1 to 5, and section 5), its enabling conditions from
\* ImageProcessor.  Ids are never used twice.

\* The record created when an acquisition has succeeded.
NewImage(info) ==
  [originalImageInfo |-> [base64 |-> info.base64, mimeType |-> info.mimeType],
   displayOriginalImageUrl |-> info.dataUrl,
   latestProcessedImageUrl |-> None,
   prompt |-> <<>>,
   isLoading |-> FALSE,
   isProcessed |-> FALSE,
   error |-> None]

\* The collection without the record id.
Without(id) == [i \in DOMAIN images \ {id} |-> images[i]]

\* The records that a batch clean takes: those whose first edit has not
\* completed.
Uncleaned == {id \in DOMAIN images : ~images[id].isProcessed}

\* The operations of the last batch that have not settled.
Unsettled(ledger) == {id \in DOMAIN ledger : ledger[id] = "pending"}

\* Transition 1: an acquisition succeeds and its record is admitted.
AddImage ==
  /\ nextId <= MaxImages
  /\ \E file \in Files :
       LET info == fileToInfo(file, "load")
       IN /\ info.ok
          /\ images' = images @@ (nextId :> NewImage(info))
  /\ nextId' = nextId + 1
  /\ UNCHANGED <<isProcessingAll, batch, requests, session, client, codec>>

\* The refinement field of a record, rendered once the record is processed
\* and disabled while it is loading.
PromptEnabled(id) ==
  /\ id \in DOMAIN images
  /\ images[id].isProcessed
  /\ ~images[id].isLoading

onPromptChange(id, text) ==
  /\ PromptEnabled(id)
  /\ images' = [images EXCEPT ![id].prompt = text]
  /\ UNCHANGED <<nextId, isProcessingAll, batch, requests, session, client, codec>>

\* Transition 4: the batch clean starts transition 2 on every record whose
\* first edit has not completed.
processAll ==
  /\ ~isProcessingAll
  /\ Uncleaned # {}
  /\ isProcessingAll' = TRUE
  /\ images' = [id \in DOMAIN images |->
                  IF id \in Uncleaned
                  THEN [images[id] EXCEPT !.isLoading = TRUE, !.error = None]
                  ELSE images[id]]
  /\ batch' = [id \in Uncleaned |-> "pending"]
  /\ requests' = requests \cup {[id |-> id, kind |-> "clean"] : id \in Uncleaned}
  /\ UNCHANGED <<nextId, session, client, codec>>

\* Transition 3: the Apply Refinement button of a record, rendered once the
\* record is processed and disabled while it is loading or its instruction
\* is blank.
RefineEnabled(id) ==
  /\ id \in DOMAIN images
  /\ images[id].isProcessed
  /\ ~images[id].isLoading
  /\ Trim(images[id].prompt) # <<>>

onRefine(id) ==
  /\ RefineEnabled(id)
  /\ ~IsNull(images[id].latestProcessedImageUrl)
  /\ images' = [images EXCEPT ![id].isLoading = TRUE, ![id].error = None]
  /\ requests' = requests \cup {[id |-> id, kind |-> "refine"]}
  /\ UNCHANGED <<nextId, isProcessingAll, batch, session, client, codec>>

\* A slip in lines 284-288: the remove button is disabled like the other
\* controls of the record.
RemoveEnabled_WhileIdle(id) ==
  /\ id \in DOMAIN images
  /\ ~images[id].isLoading

\* The remove button of a record, which nothing disables.
RemoveEnabled(id) == id \in DOMAIN images

\* Transition 5: the record is deleted.
onRemove(id) ==
  /\ RemoveEnabled(id)
  /\ images' = Without(id)
  /\ UNCHANGED <<nextId, isProcessingAll, batch, requests, session, client, codec>>

\* The record id after its edit request has settled with r.
Settled(image, r) ==
  IF r.ok
  THEN [image EXCEPT !.latestProcessedImageUrl = Some(PngDataUrl(r.data)),
                     !.isProcessed = TRUE,
                     !.error = None,
                     !.isLoading = FALSE]
  ELSE [image EXCEPT !.error = Some(r.error), !.isLoading = FALSE]

\* The ledger of the batch after the operation of request req has settled
\* with r.
Joined(req, r) ==
  IF req.kind = "clean"
  THEN [batch EXCEPT ![req.id] = IF r.ok THEN "ok" ELSE "failed"]
  ELSE batch

\* A slip: the first operation of a batch that settles ends the batch.
RequestSettled_FirstEndsBatch(req, r) ==
  /\ requests' = requests \ {req}
  /\ images' = IF req.id \in DOMAIN images
                THEN [images EXCEPT ![req.id] = Settled(images[req.id], r)]
                ELSE images
  /\ batch' = Joined(req, r)
  /\ isProcessingAll' = IF req.kind = "clean" THEN FALSE ELSE isProcessingAll
  /\ UNCHANGED <<nextId, session, client, codec>>

\* The edit request req settles with r: the record is updated by id, if it
\* is there, and the batch is in progress as long as one of its operations
\* has not settled.
RequestSettled(req, r) ==
  /\ requests' = requests \ {req}
  /\ images' = IF req.id \in DOMAIN images
                THEN [images EXCEPT ![req.id] = Settled(images[req.id], r)]
                ELSE images
  /\ batch' = Joined(req, r)
  /\ isProcessingAll' = (Unsettled(Joined(req, r)) # {})
  /\ UNCHANGED <<nextId, session, client, codec>>

\* processImageWithGemini settles for a record of the collection.
CollectionSettled ==
  \E req \in requests, outcome \in SessionOutcomes :
    RequestSettled(req, processImageWithGemini(outcome))

CollectionNext ==
  \/ AddImage
  \/ \E id \in 1..MaxImages, text \in PromptTexts : onPromptChange(id, text)
  \/ processAll
  \/ \E id \in 1..MaxImages : onRefine(id)
  \/ \E id \in 1..MaxImages : onRemove(id)
  \/ CollectionSettled

CollectionSpec == Init /\ [][CollectionNext]_vars

\* ------------------------------------------------------------------ claims

\* The edit requests that a step sends.
NewEdits ==
  {op \in BagToSet(pending') :
     op.kind = "edit" /\ CopiesIn(op, pending') > CopiesIn(op, pending)}

\* A step in which a load begins, is refused, or settles.
LoadStep ==
  \/ \E file \in Files : processFile(file)
  \/ handleLoadImage
  \/ FileSettled
  \/ UrlSettled

\* The ways in which an awaited load can settle: those of fileToInfo for
\* each file, those of urlToInfo, and those of the load op.
FileResults == [file \in Files |-> {fileToInfo(file, read) : read \in Reads}]
UrlResults == {urlToInfo(fetched, read) : fetched \in Fetches, read \in Reads}
LoadResults(op) == IF op.kind = "file" THEN FileResults[op.file] ELSE UrlResults

\* The messages with which a load that has begun can fail.
LoadFailures ==
  {fileToInfo(file, read).error :
     file \in {f \in Files : ~fileToInfo(f, "load").ok}, read \in Reads}
    \cup {fileToInfo(file, "error").error : file \in Files}
    \cup {urlToInfo(fetched, read).error :
            fetched \in {f \in Fetches : ~urlToInfo(f, "load").ok}, read \in Reads}
    \cup {urlToInfo(fetched, "error").error : fetched \in Fetches}

\* C1: at most one edit request to the Edit Service Client is outstanding at
\* any time.
C1_OneEditOutstanding == Outstanding("edit") <= 1

\* C2: a request carrying the user's instruction is sent only when the first
\* edit has completed, the latest result is non-null, the trimmed instruction
\* is non-empty and no operation is in flight; before the first edit has
\* completed no such request is sent.
C2_RefineOnlyWhenEligible ==
  [][\A op \in NewEdits :
       op.prompt # CleanInstruction =>
         /\ ~isFirstRequest
         /\ ~IsNull(latestProcessedImageUrl)
         /\ Trim(prompt) # <<>>
         /\ ~isLoading
         /\ Outstanding("edit") = 0]_vars

\* C3: every edit request sent while isFirstRequest is true carries the
\* original's base64 and MIME type and the fixed clean instruction, whatever
\* the refinement field holds.
C3_FirstRequestCarriesOriginal ==
  [][isFirstRequest =>
       \A op \in NewEdits :
         /\ ~IsNull(originalImageInfo)
         /\ op.base64Image = Val(originalImageInfo).base64
         /\ op.mimeType = Val(originalImageInfo).mimeType
         /\ op.prompt = CleanInstruction]_vars

\* C3's case: a first request is outstanding, sent while the refinement
\* field held an instruction.
C3_Witness ==
  /\ Trim(prompt) # <<>>
  /\ \E op \in Awaited("edit") :
       /\ op.first
       /\ op.prompt = CleanInstruction
       /\ ~IsNull(originalImageInfo)
       /\ op.base64Image = Val(originalImageInfo).base64

\* C4: every refine request carries the payload of the latest result, which
\* is the data of the edit that succeeded last, with the instruction of the
\* field; and only an edit that succeeds gives latestProcessedImageUrl a
\* value, the data URL of its own data.
C4_RefineChained ==
  [][/\ ~isFirstRequest =>
          \A op \in NewEdits :
            \E d \in ImageData :
              /\ latestProcessedImageUrl = Some(PngDataUrl(d))
              /\ op.base64Image = d
              /\ op.mimeType = ImagePng
              /\ op.prompt = prompt
     /\ (latestProcessedImageUrl' # latestProcessedImageUrl
           /\ ~IsNull(latestProcessedImageUrl')) =>
          \E op \in Awaited("edit"), outcome \in SessionOutcomes :
            LET r == processImageWithGemini(outcome)
            IN /\ r.ok
               /\ EditSettled(op, r)
               /\ latestProcessedImageUrl' = Some(PngDataUrl(r.data))]_vars

\* C4's case: a refine request is outstanding that carries the payload of
\* the result that was the latest when it was sent, not the original's.
C4_Witness ==
  \E op \in Awaited("edit") :
    /\ ~op.first
    /\ op.base64Image \in ImageData
    /\ op.latestBefore = Some(PngDataUrl(op.base64Image))
    /\ ~IsNull(originalImageInfo)
    /\ op.base64Image # Val(originalImageInfo).base64

\* C5: a refine attempted with an empty or whitespace-only instruction sends
\* nothing, puts the validation message in error, leaves isLoading false and
\* leaves the latest result, isFirstRequest and the original unchanged.
C5_BlankRefineRejected ==
  [][(handleProcessImage /\ ~isFirstRequest /\ Trim(prompt) = <<>>) =>
       /\ pending' = pending
       /\ error' = Some(ProvideInstruction)
       /\ ~isLoading'
       /\ UNCHANGED <<latestProcessedImageUrl, isFirstRequest,
                      originalImageInfo>>]_vars

\* C5's case: a refine with a whitespace-only instruction has been rejected.
C5_Witness ==
  /\ error = Some(ProvideInstruction)
  /\ ~isFirstRequest
  /\ prompt = <<" ">>
  /\ ~isLoading
  /\ ~IsNull(latestProcessedImageUrl)

\* C6: when an edit succeeds, the latest result is the new result,
\* isFirstRequest is false, error is null and isLoading is false.
C6_SuccessClearsError ==
  [][\A op \in Awaited("edit"), outcome \in SessionOutcomes :
       LET r == processImageWithGemini(outcome)
       IN (r.ok /\ EditSettled(op, r)) =>
            /\ latestProcessedImageUrl' = Some(PngDataUrl(r.data))
            /\ ~isFirstRequest'
            /\ error' = None
            /\ ~isLoading']_vars

\* C7: when an edit fails, error is non-null, isLoading is false, and the
\* latest result and isFirstRequest have the values they had when the edit
\* started.
C7_FailureKeepsPriorValues ==
  [][\A op \in Awaited("edit"), outcome \in SessionOutcomes :
       LET r == processImageWithGemini(outcome)
       IN (~r.ok /\ EditSettled(op, r)) =>
            /\ ~IsNull(error')
            /\ ~isLoading'
            /\ latestProcessedImageUrl' = op.latestBefore
            /\ isFirstRequest' = op.first]_vars

\* C8: no step of an edit (the click that sends, throws or is rejected, and
\* the settling) changes originalImageInfo or displayOriginalImageUrl; a step
\* that changes either is a step of a load.
C8_EditKeepsOriginal ==
  [][~(UNCHANGED <<originalImageInfo, displayOriginalImageUrl>>) =>
       /\ ~(handleProcessImage \/ ServiceSettled)
       /\ LoadStep]_vars

\* C8's case: an edit has succeeded and the original is the one loaded.
C8_Witness ==
  /\ ~IsNull(latestProcessedImageUrl)
  /\ ~IsNull(originalImageInfo)
  /\ displayOriginalImageUrl =
       Some(ReadAsDataURL(Val(originalImageInfo).mimeType,
                          Val(originalImageInfo).base64))

ImageParts(response) ==
  {<<i, j>> \in (1..Len(response.candidates)) \X (1..MaxParts) :
     /\ j <= Len(response.candidates[i].parts)
     /\ ~IsNull(response.candidates[i].parts[j].inlineData)}

\* C10: for a response with no part carrying image data, the caller gets the
\* failure that names the finish reason when there is one other than STOP,
\* and the no-image failure otherwise; neither is the generic failure or the
\* API key failure.
C10_NoImageFailureClassified ==
  (/\ ~IsNull(call)
   /\ ~IsNull(result)
   /\ ~Val(call).threw
   /\ ImageParts(Val(call).response) = {}) =>
     LET reason == FirstFinishReason(Val(call).response)
         filtered == ~IsNull(reason) /\ Val(reason) # Stop
     IN /\ ~Val(result).ok
        /\ Val(result).error =
             (IF filtered THEN SafetyPrefix \o Val(reason) ELSE NoImageData)
        /\ Val(result).error \notin {FailedModel, FailedApiKey}

\* The data of the first part, in the order of the candidates and of their
\* parts, that carries image data.
FirstImageData(response) ==
  LET hits == ImageParts(response)
      i == SetMin({h[1] : h \in hits})
      j == SetMin({h[2] : h \in {g \in hits : g[1] = i}})
  IN Val(response.candidates[i].parts[j].inlineData)

\* C11: for a response of the service, the client succeeds exactly when some
\* part of some candidate carries image data, and then returns the data of
\* the first such part.
C11_FirstImagePartReturned ==
  (/\ ~IsNull(call)
   /\ ~IsNull(result)
   /\ ~Val(call).threw) =>
     IF ImageParts(Val(call).response) # {}
     THEN /\ Val(result).ok
          /\ Val(result).data = FirstImageData(Val(call).response)
     ELSE ~Val(result).ok

\* What a string given as a data URL lacks.
MissingPrefix(u) == ~StartsWith(u, DataScheme)
MissingSeparator(u) == ~Includes(u, Base64Marker)
MissingPayload(u) ==
  /\ Includes(u, Base64Marker)
  /\ SetMax(Occurrences(u, Base64Marker)) + Len(Base64Marker) - 1 = Len(u)

\* C12: dataUrlToInfo fails with the parse error, and gives no base64 or
\* MIME type, for every data URL that lacks the data: prefix, the ;base64,
\* separator or the payload after the separator.
C12_MalformedDataUrlRejected ==
  (/\ ~IsNull(encoded)
   /\ ~IsNull(decoded)
   /\ LET u == Val(encoded).dataUrl
      IN MissingPrefix(u) \/ MissingSeparator(u) \/ MissingPayload(u)) =>
     Val(decoded) = [ok |-> FALSE, error |-> InvalidDataUrl]

\* C13: decoding the data URL made of a base64 payload b and a MIME type m
\* gives back exactly b and m.
C13_DecodeOfEncode ==
  (/\ ~IsNull(encoded)
   /\ ~IsNull(decoded)
   /\ ~IsNull(Val(encoded).source)) =>
     LET source == Val(Val(encoded).source)
     IN Val(decoded) = [ok |-> TRUE, base64 |-> source.base64,
                        mimeType |-> source.mimeType]

\* C13's case: a data URL made of a payload with every kind of base64
\* character and of a MIME type with a "+" has been decoded.
C13_Witness ==
  /\ ~IsNull(encoded)
  /\ ~IsNull(decoded)
  /\ ~IsNull(Val(encoded).source)
  /\ Val(Val(encoded).source).mimeType = ImageSvg
  /\ Val(Val(encoded).source).base64 = <<"/", "=">>
  /\ Val(decoded).ok
  /\ Val(decoded).base64 = <<"/", "=">>

\* The step in which the request req of the collection settles with some
\* result that is ok, or with some that is not.
SettlesWith(req, ok) ==
  \E outcome \in SessionOutcomes :
    LET r == processImageWithGemini(outcome)
    IN r.ok = ok /\ RequestSettled(req, r)

\* The settling of an operation of a batch changes no other record, makes
\* its own record processed when it succeeds, and leaves it unprocessed, with
\* an error, when it fails.
BatchStep ==
  [][\A req \in requests :
       (requests' = requests \ {req} /\ req.kind = "clean") =>
         /\ \A id \in DOMAIN images \ {req.id} :
              id \in DOMAIN images' /\ images'[id] = images[id]
         /\ (req.id \in DOMAIN images /\ SettlesWith(req, TRUE)) =>
              images'[req.id].isProcessed
         /\ (req.id \in DOMAIN images /\ SettlesWith(req, FALSE)) =>
              /\ ~images'[req.id].isProcessed
              /\ ~IsNull(images'[req.id].error)]_vars

\* C14: in a batch clean, the batch is in progress exactly as long as one of
\* its operations has not settled; every record whose operation succeeded is
\* processed and has a result, every record whose operation failed has an
\* error and is still not processed; and the settling of one operation
\* changes no other record.
C14_BatchJoin ==
  /\ [](isProcessingAll <=> Unsettled(batch) # {})
  /\ [](\A id \in DOMAIN batch \cap DOMAIN images :
          /\ batch[id] = "ok" =>
               /\ images[id].isProcessed
               /\ ~IsNull(images[id].latestProcessedImageUrl)
          /\ batch[id] = "failed" =>
               /\ ~images[id].isProcessed
               /\ ~IsNull(images[id].error)
               /\ IsNull(images[id].latestProcessedImageUrl))
  /\ BatchStep

\* C14's case: a batch over two records has ended, one operation having
\* succeeded and the other failed.
C14_Witness ==
  /\ ~isProcessingAll
  /\ DOMAIN batch \subseteq DOMAIN images
  /\ \E i, j \in DOMAIN batch :
       /\ batch[i] = "ok" /\ images[i].isProcessed
       /\ batch[j] = "failed" /\ ~IsNull(images[j].error)

\* Removing a record takes that record out and changes no other; the
\* settling of a request whose record is not there changes no record.
RemoveStep ==
  [][/\ \A id \in DOMAIN images :
          onRemove(id) =>
            /\ DOMAIN images' = DOMAIN images \ {id}
            /\ \A other \in DOMAIN images' : images'[other] = images[other]
     /\ \A req \in requests :
          (requests' = requests \ {req} /\ req.id \notin DOMAIN images) =>
            images' = images]_vars

Unfetched ==
  {f \in Fetches :
     f.threw \/ ~f.ok \/ IsNull(f.contentType)
       \/ ~StartsWith(Val(f.contentType), ImageSlash)}

\* The error of each of these cases.
UrlFailure(f) ==
  IF f.threw THEN NetworkErrorMessage
  ELSE IF ~f.ok THEN StatusError(f.status, f.statusText)
  ELSE NotAnImage

\* C16: a blank URL is refused with its own message before anything is
\* fetched; a load from a URL whose fetch fails in transport, answers with a
\* failure status or answers with a Content-Type that is not an image's
\* fails with the error of that case whatever reading the body would give,
\* and creates no record: originalImageInfo and its display form are left
\* as they are.
C16_UrlLoadFailureKinds ==
  [][/\ (handleLoadImage /\ Trim(imageUrlInput) = <<>>) =>
          /\ pending' = pending
          /\ error' = Some(EnterUrl)
          /\ UNCHANGED <<originalImageInfo, displayOriginalImageUrl>>
     /\ \A op \in Awaited("url") :
          CopiesIn(op, pending') < CopiesIn(op, pending) =>
            \A f \in Unfetched, read \in Reads :
              LoadSettled(op, urlToInfo(f, read)) =>
                /\ error' = Some(UrlFailure(f))
                /\ ~isLoading'
                /\ UNCHANGED <<originalImageInfo, displayOriginalImageUrl>>]_vars

\* C16's case: a load from a URL that answered with text/html has failed
\* and there is no original.
C16_Witness ==
  /\ error = Some(NotAnImage)
  /\ IsNull(originalImageInfo)
  /\ IsNull(displayOriginalImageUrl)
  /\ ~isLoading
  /\ Awaited("url") = {}

\* C17: whenever an edit request is outstanding, isLoading is true.
C17_FlagWhileEditOutstanding == Outstanding("edit") > 0 => isLoading

\* The ways in which an awaited load and an awaited edit can fail.
FailedLoads(op) == {info \in LoadResults(op) : ~info.ok}
EditResults == {processImageWithGemini(outcome) : outcome \in SessionOutcomes}
FailedEdits == {r \in EditResults : ~r.ok}

\* C18: the step in which a load or an edit settles with a failure, and the
\* step in which a handler ends on an error of its own, sets error to the
\* message of the failure as it clears isLoading.
C18_NoFailureSwallowed ==
  [][/\ BagCardinality(pending') < BagCardinality(pending) =>
          \A op \in BagToSet(pending) :
            CopiesIn(op, pending') < CopiesIn(op, pending) =>
              IF op.kind = "edit"
              THEN \A r \in FailedEdits :
                     EditSettled(op, r) =>
                       ~isLoading' /\ ~IsNull(error') /\ error' = Some(r.error)
              ELSE \A info \in FailedLoads(op) :
                     LoadSettled(op, info) =>
                       ~isLoading' /\ ~IsNull(error') /\ error' = Some(info.error)
     /\ (~isLoading /\ pending' = pending) =>
          /\ \A file \in Files :
               (~StartsWith(file.type, ImageSlash) /\ handleFileChange(file)) =>
                 ~isLoading' /\ error' = Some(InvalidUpload)
          /\ handleProcessImage => ~isLoading' /\ ~IsNull(error')]_vars

\* C18's case: the first request for an image has failed; its message is
\* there, the flag is clear and nothing is awaited.
C18_Witness ==
  /\ error = Some(FailedApiKey)
  /\ ~isLoading
  /\ pending = EmptyBag
  /\ isFirstRequest
  /\ ~IsNull(originalImageInfo)

\* isLoading is true only while something is awaited.
FlagHasCause == [](isLoading => pending # EmptyBag)

\* Whatever is awaited of one kind, the collaborator of that kind answers
\* and, each time isLoading is true, it becomes false.
FlagClears == isLoading ~> ~isLoading

\* C19: with collaborators that answer, an operation that was started
\* settles and isLoading becomes false again; isLoading is never true with
\* nothing outstanding.
C19_OperationsComplete ==
  /\ FlagHasCause
  /\ FlagClears

\* C19's case: a load and an edit were started and both have settled, the
\* flag and its message are cleared.
C19_Witness ==
  /\ ~isLoading
  /\ loadingMessage = ""
  /\ pending = EmptyBag
  /\ ~IsNull(latestProcessedImageUrl)
  /\ IsNull(error)

\* C20: a result is applied only to the image its request was made for: when
\* an edit succeeds, the session holds an original; for a first request it
\* is the image the request carried, and for a refinement the latest result
\* is still the one the request carried.
C20_ResultBelongsToOriginal ==
  [][\A op \in Awaited("edit") :
       CopiesIn(op, pending') < CopiesIn(op, pending) =>
         \A outcome \in SessionOutcomes :
           LET r == processImageWithGemini(outcome)
           IN (EditSettled(op, r) /\ r.ok) =>
                /\ ~IsNull(originalImageInfo)
                /\ IF op.first
                   THEN originalImageInfo =
                          Some([base64 |-> op.base64Image, mimeType |-> op.mimeType])
                   ELSE latestProcessedImageUrl = op.latestBefore]_vars

\* C21: a session that holds an original and is past its first request holds
\* a latest result, so handleProcessImage, whenever it runs, does not end on
\* the error that the processed image is missing.
C21_RefinementHasResult ==
  (~isFirstRequest /\ ~IsNull(originalImageInfo)) =>
    /\ ~IsNull(latestProcessedImageUrl)
    /\ ~(PrepareEdit.step = "throw" /\ PrepareEdit.error = MissingProcessed)

\* C21's case: an image loaded from a URL has been edited, and the
\* refinement of its latest result is being applied.
C21_Witness ==
  /\ ~isFirstRequest
  /\ ~IsNull(originalImageInfo)
  /\ ~IsNull(latestProcessedImageUrl)
  /\ isLoading
  /\ loadingMessage = "Applying refinement..."
  /\ \E op \in Awaited("edit") :
       /\ ~op.first
       /\ op.latestBefore = latestProcessedImageUrl
       /\ Val(originalImageInfo).mimeType = ImageJpeg

====
